---- MODULE Spec2Model ----
(***************************************************************************)
(* A model of App.py: the Flask e-commerce backend with three tables       *)
(* (User, Product, CartItem), session login and the cart endpoints.        *)
(*                                                                         *)
(* Tables are functions from the ids of the rows that exist to the rows.   *)
(* Every request ends by recording the response it sent in resp.           *)
(* Spec runs each handler to completion, one request at a time.            *)
(* SpecConc splits the three cart writers at the point between their       *)
(* query and their commit, so that the requests of two clients interleave. *)
(* Product.description is left out: no cart endpoint reads it.             *)
(***************************************************************************)
EXTENDS Integers, Sequences, FiniteSets, TLC

\* ------------------------------------------------------------- bounds
\* Largest Product.id / CartItem.id the model lets SQLite hand out.
MaxProducts == 2
MaxCartItems == 2

\* ------------------------------------------------------------- data
\* The rows of the user table.  No endpoint writes this table (registration
\* is not part of App.py), so it is seeded.
SeedUsers == (1 :> [username |-> "alice", password |-> "secret"])
          @@ (2 :> [username |-> "bob", password |-> "hunter2"])

\* The login bodies a client may send, as <<username, password>>: the two
\* right ones, a user's name with the other user's password, and bodies
\* that lack a key.  "" stands for a key that is absent from the JSON
\* (data.get() gives None, which equals no stored username or password).
Credentials == {<<"alice", "secret">>, <<"bob", "hunter2">>, <<"alice", "hunter2">>,
                <<"", "secret">>, <<"bob", "">>}

\* Values a client may send for a product; prices are in tenths (15 = 1.5).
Names == {"Pen"}
Prices == {15, 20}

\* The JSON bodies a client may send to add_product and update_product:
\* the keys that are present, with their values.
Bodies == {<<>>}
          \cup {[name |-> n] : n \in Names}
          \cup {[price |-> p] : p \in Prices}
          \cup {[name |-> n, price |-> p] : n \in Names, p \in Prices}

\* The product ids a client may put in a URL.
ProductIds == 1..MaxProducts

VARIABLES users, products, cartItems, session, inflight, resp

vars == <<users, products, cartItems, session, inflight, resp>>

\* Browser sessions (cookie jars) talking to the server.
Clients == DOMAIN session

\* ------------------------------------------------------------- helpers
Max(S) == CHOOSE x \in S : \A y \in S : y <= x
Min(S) == CHOOSE x \in S : \A y \in S : x <= y

\* INTEGER PRIMARY KEY on SQLite without AUTOINCREMENT: a new row gets one
\* more than the largest id in use, so the id of a deleted last row is reused.
NextId(table) == IF DOMAIN table = {} THEN 1 ELSE Max(DOMAIN table) + 1

\* The k-th of a set of ids in ascending (rowid) order.
Nth(S, k) == CHOOSE i \in S : Cardinality({j \in S : j < i}) = k - 1

\* A faulty DeleteRows: only the first of the rows is deleted.
DeleteFirstRow(table, ids) ==
    IF ids = {} THEN table ELSE [i \in DOMAIN table \ {Min(ids)} |-> table[i]]

\* The table without the rows in ids (DELETE ... WHERE id = ? for each id;
\* an id that matches no row deletes nothing).
DeleteRows(table, ids) == [i \in DOMAIN table \ ids |-> table[i]]

\* The user id of a session that holds none.
Anonymous == 0

\* What a handler has decided to write once its queries are done: the
\* endpoint, current_user.id, the product id of the URL and the CartItems
\* it is about to delete.
Request(op, user, product_id, found) ==
    [op |-> op, user |-> user, pid |-> product_id, found |-> found]

\* A client with no request in flight.
Idle == Request("idle", Anonymous, 0, {})

\* What the server answered last: the endpoint, the client and the user its
\* session resolved to, the request's arguments (the product id of a cart
\* request, the credentials of a login), the HTTP status, the JSON list of
\* view_cart, and the number of rows the request's commit wrote.
Response(op, c, arg, status) ==
    [op |-> op, client |-> c, user |-> session[c], arg |-> arg,
     status |-> status, body |-> <<>>, rowcount |-> 0]

\* ------------------------------------------------------------- login
\* A faulty authenticate: the password is not compared.
authenticate_by_username(username, password) ==
    LET hit == {u \in DOMAIN users : users[u].username = username}
    IN  IF hit = {} THEN Anonymous ELSE Min(hit)

\* User.query.filter_by(username=...).first() and the password comparison:
\* the id of the user the credentials authenticate, or Anonymous.
authenticate(username, password) ==
    LET hit == {u \in DOMAIN users : users[u].username = username
                                     /\ users[u].password = password}
    IN  IF hit = {} THEN Anonymous ELSE Min(hit)

login(c) ==
    \E data \in Credentials :
        LET user == authenticate(data[1], data[2])
        IN  /\ inflight[c] = Idle
            /\ IF user # Anonymous
               THEN /\ session' = [session EXCEPT ![c] = user]
                    /\ resp' = [Response("login", c, data, 200) EXCEPT !.user = user]
               ELSE /\ session' = session
                    /\ resp' = Response("login", c, data, 401)
            /\ UNCHANGED <<users, products, cartItems, inflight>>

\* @login_required: load_user resolves the session's user id.
load_user(c) == IF session[c] \in DOMAIN users THEN session[c] ELSE Anonymous

\* login_manager.unauthorized() with login_view set: a redirect to the login
\* view, and the handler does not run.
Unauthorized(c, op) ==
    /\ load_user(c) = Anonymous
    /\ resp' = Response(op, c, <<>>, 302)
    /\ UNCHANGED <<users, products, cartItems, session, inflight>>

logout(c) ==
    /\ inflight[c] = Idle
    /\ \/ Unauthorized(c, "logout")
       \/ /\ load_user(c) # Anonymous
          /\ session' = [session EXCEPT ![c] = Anonymous]
          /\ resp' = Response("logout", c, <<>>, 200)
          /\ UNCHANGED <<users, products, cartItems, inflight>>

\* ------------------------------------------------------------- catalog
\* add_product: both 'name' and 'price' must be keys of the JSON body.
add_product(c) ==
    \E data \in Bodies :
        /\ inflight[c] = Idle
        /\ \/ Unauthorized(c, "add_product")
           \/ /\ load_user(c) # Anonymous
              /\ IF "name" \in DOMAIN data /\ "price" \in DOMAIN data
                 THEN /\ NextId(products) <= MaxProducts
                      /\ products' = (NextId(products) :>
                                        [name |-> data.name, price |-> data.price])
                                     @@ products
                      /\ resp' = [Response("add_product", c, <<>>, 200)
                                    EXCEPT !.rowcount = 1]
                 ELSE /\ products' = products
                      /\ resp' = Response("add_product", c, <<>>, 400)
              /\ UNCHANGED <<users, cartItems, session, inflight>>

\* delete_product: removes the product row and nothing else; SQLite does not
\* enforce the foreign key of CartItem.product_id, and Product has no
\* relationship that would cascade.
delete_product(c) ==
    \E product_id \in ProductIds :
        /\ inflight[c] = Idle
        /\ \/ Unauthorized(c, "delete_product")
           \/ /\ load_user(c) # Anonymous
              /\ IF product_id \in DOMAIN products
                 THEN /\ products' = DeleteRows(products, {product_id})
                      /\ resp' = [Response("delete_product", c, <<>>, 200)
                                    EXCEPT !.rowcount = 1]
                 ELSE /\ products' = products
                      /\ resp' = Response("delete_product", c, <<>>, 404)
              /\ UNCHANGED <<users, cartItems, session, inflight>>

\* update_product: a partial update; only the keys present in the body are
\* written.
update_product(c) ==
    \E product_id \in ProductIds, data \in Bodies :
        /\ inflight[c] = Idle
        /\ \/ Unauthorized(c, "update_product")
           \/ /\ load_user(c) # Anonymous
              /\ IF product_id \in DOMAIN products
                 THEN /\ products' = [products EXCEPT ![product_id] =
                            [name  |-> IF "name" \in DOMAIN data THEN data.name ELSE @.name,
                             price |-> IF "price" \in DOMAIN data THEN data.price ELSE @.price]]
                      /\ resp' = [Response("update_product", c, <<>>, 200)
                                    EXCEPT !.rowcount = 1]
                 ELSE /\ products' = products
                      /\ resp' = Response("update_product", c, <<>>, 404)
              /\ UNCHANGED <<users, cartItems, session, inflight>>

\* ------------------------------------------------------------- cart
\* A faulty cart: the rows are not filtered by their user.
cart_of_anyone(table, user) == DOMAIN table

\* user.cart: the ids of the CartItems whose user_id is the user's.
cart(table, user) == {i \in DOMAIN table : table[i].user_id = user}

\* A faulty matching: the rows are not filtered by their product.
matching_user_only(table, user, product_id) ==
    {i \in DOMAIN table : table[i].user_id = user}

\* CartItem.query.filter_by(user_id=..., product_id=...): the matching rows.
\* .first() returns one of them; with no ORDER BY, SQL does not say which.
matching(table, user, product_id) ==
    {i \in DOMAIN table : table[i].user_id = user /\ table[i].product_id = product_id}

\* Product.query.get(product_id) found a row.
product_found(product_id) == product_id \in DOMAIN products

\* A faulty resolves: the product lookup is not checked.
resolves_user_only(user, product_id) == user \in DOMAIN users

\* add_to_cart's guard "if user and product": both lookups found a row.
resolves(user, product_id) == user \in DOMAIN users /\ product_found(product_id)

\* The table after db.session.add(CartItem(user_id, product_id)).
InsertCartItem(table, user, product_id) ==
    (NextId(table) :> [user_id |-> user, product_id |-> product_id]) @@ table

\* The CartItem table once the request's db.session.commit() has run: the
\* INSERT of add_to_cart, or the DELETEs of remove_from_cart and checkout,
\* all in the one transaction.
commit_rows(table, request) ==
    IF request.op = "add_to_cart"
    THEN InsertCartItem(table, request.user, request.pid)
    ELSE DeleteRows(table, request.found)

\* The number of rows that commit wrote.
commit_rowcount(table, request) ==
    IF request.op = "add_to_cart" THEN 1
    ELSE Cardinality(request.found \cap DOMAIN table)

\* A faulty commit_status: a DELETE that matches no row is an error.
commit_status_stale_error(table, request) ==
    IF request.op # "add_to_cart" /\ ~(request.found \subseteq DOMAIN table)
    THEN 500 ELSE 200

\* The status of the response after the commit.  A DELETE that matches no
\* row (the row went away since the query) is not an error for the session.
commit_status(table, request) == 200

\* A faulty rollback_rows: each statement was committed as it was issued,
\* so the first one survives the failure.
rollback_keeps_statements(table, request) ==
    IF request.op = "add_to_cart"
    THEN InsertCartItem(table, request.user, request.pid)
    ELSE DeleteFirstRow(table, request.found)

\* The CartItem table when the request dies before db.session.commit():
\* nothing of its transaction is kept.
rollback_rows(table, request) == table

\* The arguments a cart response echoes.
CartArg(request) == IF request.op = "checkout" THEN <<>> ELSE <<request.pid>>

\* The write half of a cart handler: commit and answer.
commit(c, request) ==
    /\ request.op = "add_to_cart" => NextId(cartItems) <= MaxCartItems
    /\ cartItems' = commit_rows(cartItems, request)
    /\ resp' = [Response(request.op, c, CartArg(request), commit_status(cartItems, request))
                  EXCEPT !.user = request.user,
                         !.rowcount = commit_rowcount(cartItems, request)]

\* add_to_cart, run to completion.
add_to_cart(c) ==
    \E product_id \in ProductIds :
        /\ inflight[c] = Idle
        /\ \/ Unauthorized(c, "add_to_cart")
           \/ /\ load_user(c) # Anonymous
              /\ IF resolves(load_user(c), product_id)
                 THEN commit(c, Request("add_to_cart", load_user(c), product_id, {}))
                 ELSE /\ cartItems' = cartItems
                      /\ resp' = Response("add_to_cart", c, <<product_id>>, 400)
              /\ UNCHANGED <<users, products, session, inflight>>

\* remove_from_cart, run to completion.
remove_from_cart(c) ==
    \E product_id \in ProductIds :
        /\ inflight[c] = Idle
        /\ \/ Unauthorized(c, "remove_from_cart")
           \/ /\ load_user(c) # Anonymous
              /\ LET found == matching(cartItems, load_user(c), product_id)
                 IN  IF found # {}
                     THEN \E cart_item \in found :
                            commit(c, Request("remove_from_cart", load_user(c),
                                              product_id, {cart_item}))
                     ELSE /\ cartItems' = cartItems
                          /\ resp' = Response("remove_from_cart", c, <<product_id>>, 400)
              /\ UNCHANGED <<users, products, session, inflight>>

\* One element of view_cart's list, for a CartItem whose product row exists.
Entry(table, i) ==
    [id |-> i, user_id |-> table[i].user_id, product_id |-> table[i].product_id,
     product_name |-> products[table[i].product_id].name,
     product_price |-> products[table[i].product_id].price]

\* view_cart's outcome for a user: the status and the JSON list.  For a
\* CartItem whose product row is gone Product.query.get returns None, and
\* product.name raises AttributeError: the request ends with a 500 and no list.
view_cart_result(user) ==
    LET ids == cart(cartItems, user)
    IN  IF \A i \in ids : product_found(cartItems[i].product_id)
        THEN [status |-> 200,
              body |-> [k \in 1..Cardinality(ids) |-> Entry(cartItems, Nth(ids, k))]]
        ELSE [status |-> 500, body |-> <<>>]

view_cart(c) ==
    /\ inflight[c] = Idle
    /\ \/ Unauthorized(c, "view_cart")
       \/ /\ load_user(c) # Anonymous
          /\ resp' = [Response("view_cart", c, <<>>, view_cart_result(load_user(c)).status)
                        EXCEPT !.body = view_cart_result(load_user(c)).body]
          /\ UNCHANGED <<users, products, cartItems, session, inflight>>

\* checkout, run to completion: every CartItem of user.cart is deleted and
\* the deletions are committed together.
checkout(c) ==
    /\ inflight[c] = Idle
    /\ \/ Unauthorized(c, "checkout")
       \/ /\ load_user(c) # Anonymous
          /\ commit(c, Request("checkout", load_user(c), 0, cart(cartItems, load_user(c))))
          /\ UNCHANGED <<users, products, session, inflight>>

\* ------------------------------------------------------------- Spec
NoResponse ==
    [op |-> "none", client |-> "c1", user |-> Anonymous, arg |-> <<>>,
     status |-> 0, body |-> <<>>, rowcount |-> 0]

\* An empty catalog, empty carts and one browser that is not logged in.
Init ==
    /\ users = SeedUsers
    /\ products = <<>>
    /\ cartItems = <<>>
    /\ session = [c \in {"c1"} |-> Anonymous]
    /\ inflight = [c \in {"c1"} |-> Idle]
    /\ resp = NoResponse

Next ==
    \/ \E c \in Clients : login(c)
    \/ \E c \in Clients : logout(c)
    \/ \E c \in Clients : add_product(c)
    \/ \E c \in Clients : delete_product(c)
    \/ \E c \in Clients : update_product(c)
    \/ \E c \in Clients : add_to_cart(c)
    \/ \E c \in Clients : remove_from_cart(c)
    \/ \E c \in Clients : view_cart(c)
    \/ \E c \in Clients : checkout(c)

Spec == Init /\ [][Next]_vars

\* ------------------------------------------------------------- SpecConc
\* The query half of add_to_cart: both lookups; a miss answers 400 at once.
add_to_cart_query(c) ==
    \E product_id \in ProductIds :
        /\ inflight[c] = Idle
        /\ \/ Unauthorized(c, "add_to_cart")
           \/ /\ load_user(c) # Anonymous
              /\ IF resolves(load_user(c), product_id)
                 THEN /\ inflight' = [inflight EXCEPT ![c] =
                            Request("add_to_cart", load_user(c), product_id, {})]
                      /\ resp' = resp
                 ELSE /\ inflight' = inflight
                      /\ resp' = Response("add_to_cart", c, <<product_id>>, 400)
              /\ UNCHANGED <<users, products, cartItems, session>>

\* The query half of remove_from_cart: filter_by(...).first().
remove_from_cart_query(c) ==
    \E product_id \in ProductIds :
        /\ inflight[c] = Idle
        /\ \/ Unauthorized(c, "remove_from_cart")
           \/ /\ load_user(c) # Anonymous
              /\ LET found == matching(cartItems, load_user(c), product_id)
                 IN  IF found # {}
                     THEN \E cart_item \in found :
                            /\ inflight' = [inflight EXCEPT ![c] =
                                  Request("remove_from_cart", load_user(c),
                                          product_id, {cart_item})]
                            /\ resp' = resp
                     ELSE /\ inflight' = inflight
                          /\ resp' = Response("remove_from_cart", c, <<product_id>>, 400)
              /\ UNCHANGED <<users, products, cartItems, session>>

\* The query half of checkout: user.cart is loaded.
checkout_query(c) ==
    /\ inflight[c] = Idle
    /\ \/ Unauthorized(c, "checkout")
       \/ /\ load_user(c) # Anonymous
          /\ inflight' = [inflight EXCEPT ![c] =
                Request("checkout", load_user(c), 0, cart(cartItems, load_user(c)))]
          /\ UNCHANGED <<users, products, cartItems, session, resp>>

\* The write half of the request a client has in flight.
finish(c) ==
    /\ inflight[c] # Idle
    /\ commit(c, inflight[c])
    /\ inflight' = [inflight EXCEPT ![c] = Idle]
    /\ UNCHANGED <<users, products, session>>

\* The request a client has in flight dies between its statements and its
\* commit (the database or the worker fails): a 500, and a rollback.
failure(c) ==
    /\ inflight[c] # Idle
    /\ cartItems' = rollback_rows(cartItems, inflight[c])
    /\ resp' = [Response("failure", c, <<inflight[c].op>>, 500)
                  EXCEPT !.user = inflight[c].user]
    /\ inflight' = [inflight EXCEPT ![c] = Idle]
    /\ UNCHANGED <<users, products, session>>

\* A catalog of two products, which Spec reaches by two add_product calls.
SeedCatalog == (1 :> [name |-> "Pen", price |-> 15])
            @@ (2 :> [name |-> "Pen", price |-> 20])

\* The seeded catalog, empty carts and two browsers that are not logged in.
InitConc ==
    /\ users = SeedUsers
    /\ products = SeedCatalog
    /\ cartItems = <<>>
    /\ session = [c \in {"c1", "c2"} |-> Anonymous]
    /\ inflight = [c \in {"c1", "c2"} |-> Idle]
    /\ resp = NoResponse

NextConc ==
    \/ \E c \in Clients : login(c)
    \/ \E c \in Clients : add_to_cart_query(c)
    \/ \E c \in Clients : remove_from_cart_query(c)
    \/ \E c \in Clients : checkout_query(c)
    \/ \E c \in Clients : finish(c)
    \/ \E c \in Clients : failure(c)

SpecConc == InitConc /\ [][NextConc]_vars

\* ------------------------------------------------------------- properties
\* The CartItems a user holds, and those that reference one product, read
\* off the table directly.
Owned(table, u) == {i \in DOMAIN table : table[i].user_id = u}
Holding(table, u, p) == {i \in Owned(table, u) : table[i].product_id = p}

\* The positions of a view_cart list that reference product p.
EntriesFor(body, p) == {k \in DOMAIN body : body[k].product_id = p}

\* Row i is not the same row before and after the step.
Changed(i) ==
    ~(i \in DOMAIN cartItems /\ i \in DOMAIN cartItems' /\ cartItems'[i] = cartItems[i])

\* C1: every successful add_to_cart(U,P) adds exactly one CartItem (U,P),
\* and a view_cart(U) that follows it at once answers 200 with one more
\* entry referencing P than U held before (one entry when U held none, two
\* after two calls).
C1_AddThenViewShowsOneMore ==
    [][\A u \in DOMAIN users, p \in ProductIds :
          (resp'.op = "add_to_cart" /\ resp'.status = 200
             /\ resp'.user = u /\ resp'.arg = <<p>>)
          => /\ Cardinality(Holding(cartItems', u, p))
                  = Cardinality(Holding(cartItems, u, p)) + 1
             /\ view_cart_result(u)'.status = 200
             /\ Cardinality(EntriesFor(view_cart_result(u)'.body, p))
                  = Cardinality(Holding(cartItems, u, p)) + 1]_vars

\* C2: a view_cart(U) that follows checkout(U) at once answers 200 with
\* the empty list, and U holds no CartItem, however many U held before.
C2_CheckoutThenViewIsEmpty ==
    [][\A u \in DOMAIN users :
          (resp'.op = "checkout" /\ resp'.status = 200 /\ resp'.user = u)
          => /\ Owned(cartItems', u) = {}
             /\ view_cart_result(u)' = [status |-> 200, body |-> <<>>]]_vars

\* C2 witness: a checkout has just cleared a cart of two or more items.
C2_Witness ==
    resp.op = "checkout" /\ resp.status = 200 /\ resp.rowcount >= 2

\* C3: a remove_from_cart(U,P) that runs on its own, with k entries (U,P):
\* for k >= 1 it answers 200 and deletes exactly one of them and nothing
\* else, so k-1 remain; for k = 0 it answers 400 and changes no CartItem.
C3_RemoveDeletesExactlyOne ==
    [][\A u \in DOMAIN users, p \in ProductIds :
          (resp'.op = "remove_from_cart" /\ resp'.status # 302
             /\ resp'.user = u /\ resp'.arg = <<p>>)
          => IF Holding(cartItems, u, p) # {}
             THEN /\ resp'.status = 200
                  /\ \E i \in Holding(cartItems, u, p) :
                        /\ DOMAIN cartItems' = DOMAIN cartItems \ {i}
                        /\ \A j \in DOMAIN cartItems' : cartItems'[j] = cartItems[j]
                  /\ Cardinality(Holding(cartItems', u, p))
                       = Cardinality(Holding(cartItems, u, p)) - 1
             ELSE /\ resp'.status = 400
                  /\ cartItems' = cartItems]_vars

\* C3 witness: a remove has succeeded and a duplicate entry for the same
\* user and product is still in the cart.
C3_Witness ==
    /\ resp.op = "remove_from_cart" /\ resp.status = 200
    /\ Holding(cartItems, resp.user, resp.arg[1]) # {}

\* C4: add_to_cart answers 200 exactly when the user and the product both
\* resolve, a 400 writes nothing, and every CartItem a step creates
\* references a user and a product that exist at that moment.
C4_AddRequiresUserAndProduct ==
    [][/\ \A p \in ProductIds :
            (resp'.op = "add_to_cart" /\ resp'.status # 302 /\ resp'.arg = <<p>>)
            => /\ resp'.status \in {200, 400}
               /\ resp'.status = 200 <=> (resp'.user \in DOMAIN users /\ p \in DOMAIN products)
               /\ resp'.status = 400 => cartItems' = cartItems
       /\ \A i \in DOMAIN cartItems' :
            Changed(i) => /\ cartItems'[i].user_id \in DOMAIN users'
                          /\ cartItems'[i].product_id \in DOMAIN products']_vars

\* C4 witness: an add_to_cart for a product id with no row was refused
\* while the cart table held rows.
C4_Witness ==
    /\ resp.op = "add_to_cart" /\ resp.status = 400
    /\ resp.arg[1] \notin DOMAIN products
    /\ DOMAIN cartItems # {}

\* C5: a cart request that dies before its commit leaves the CartItem table
\* as it was; one that commits applies its whole write in that one step (the
\* one insert, or every deletion it decided on); no other step of a request
\* changes the table.  So no state holds a part of a checkout's deletions.
C5_AllOrNothing ==
    [][/\ \A c \in DOMAIN inflight :
            (inflight[c] # Idle /\ inflight'[c] = Idle)
            => \/ /\ resp'.op = "failure"
                  /\ cartItems' = cartItems
               \/ /\ resp'.op = inflight[c].op
                  /\ resp'.status = 200
                  /\ IF inflight[c].op = "add_to_cart"
                     THEN \E i \in DOMAIN cartItems' \ DOMAIN cartItems :
                            /\ DOMAIN cartItems' = DOMAIN cartItems \cup {i}
                            /\ \A j \in DOMAIN cartItems : cartItems'[j] = cartItems[j]
                     ELSE /\ DOMAIN cartItems' = DOMAIN cartItems \ inflight[c].found
                          /\ \A j \in DOMAIN cartItems' : cartItems'[j] = cartItems[j]
       /\ (\A c \in DOMAIN inflight : ~(inflight[c] # Idle /\ inflight'[c] = Idle))
            => cartItems' = cartItems]_vars

\* C5 witness: a checkout that had read two or more CartItems died before
\* its commit, and the user still holds them.
C5_Witness ==
    /\ resp.op = "failure" /\ resp.arg = <<"checkout">>
    /\ Cardinality(Owned(cartItems, resp.user)) >= 2

\* C6: the commit of a remove_from_cart answers 200 whether or not the row
\* it found is still there; if the row is gone the commit changes nothing;
\* afterwards the row is not in the table, and if it was the user's last
\* entry for the product the user has none.
C6_StaleRemoveIsSilent ==
    [][\A c \in DOMAIN inflight :
          (inflight[c].op = "remove_from_cart" /\ inflight'[c] = Idle
             /\ resp'.op # "failure")
          => /\ resp'.op = "remove_from_cart"
             /\ resp'.status = 200
             /\ inflight[c].found \cap DOMAIN cartItems' = {}
             /\ inflight[c].found \cap DOMAIN cartItems = {} => cartItems' = cartItems
             /\ Holding(cartItems, inflight[c].user, inflight[c].pid) \subseteq inflight[c].found
                  => Holding(cartItems', inflight[c].user, inflight[c].pid) = {}]_vars

\* C6 witness: a remove_from_cart has answered 200 although its DELETE
\* matched no row, the row having been deleted since it was found.
C6_Witness ==
    resp.op = "remove_from_cart" /\ resp.status = 200 /\ resp.rowcount = 0

\* C7: when update_product changes the row of a product P that user U has
\* in the cart, a view_cart(U) that follows answers 200 and every entry of
\* U referencing P carries P's new name and price.
C7_ViewCartReadsLive ==
    [][\A u \in DOMAIN users, p \in ProductIds :
          (resp'.op = "update_product" /\ resp'.status = 200
             /\ p \in DOMAIN products /\ products'[p] # products[p]
             /\ Holding(cartItems, u, p) # {})
          => /\ view_cart_result(u)'.status = 200
             /\ Cardinality(EntriesFor(view_cart_result(u)'.body, p))
                  = Cardinality(Holding(cartItems, u, p))
             /\ \A k \in EntriesFor(view_cart_result(u)'.body, p) :
                  /\ view_cart_result(u)'.body[k].product_price = products'[p].price
                  /\ view_cart_result(u)'.body[k].product_name = products'[p].name]_vars

\* C8: a login answers 200 exactly when some user row has the username and
\* the password that were sent, and then the client's session is that user;
\* any other login answers 401 and changes no session; and a session only
\* comes to hold a user through such a successful login.
C8_LoginIffCredentialsMatch ==
    [][/\ resp'.op = "login"
            => LET match == {u \in DOMAIN users :
                               /\ users[u].username = resp'.arg[1]
                               /\ users[u].password = resp'.arg[2]}
               IN  /\ resp'.status \in {200, 401}
                   /\ resp'.status = 200 <=> match # {}
                   /\ resp'.status = 200 =>
                        /\ session'[resp'.client] \in match
                        /\ \A d \in DOMAIN session \ {resp'.client} : session'[d] = session[d]
                   /\ resp'.status = 401 => session' = session
       /\ \A c \in DOMAIN session :
            (session'[c] # session[c] /\ session'[c] # Anonymous)
            => /\ resp'.op = "login" /\ resp'.status = 200 /\ resp'.client = c
               /\ session'[c] \in DOMAIN users
               /\ users[session'[c]].username = resp'.arg[1]
               /\ users[session'[c]].password = resp'.arg[2]]_vars

\* C8 witness: a login with an existing username and another user's
\* password was refused, and the client has no session.
C8_Witness ==
    /\ resp.op = "login" /\ resp.status = 401
    /\ \E u \in DOMAIN users : users[u].username = resp.arg[1]
    /\ \E u \in DOMAIN users : users[u].password = resp.arg[2]
    /\ session[resp.client] = Anonymous

\* C9: every view_cart of a logged-in user answers 200 with exactly one
\* entry, carrying the product's name and price, for each CartItem the user
\* holds.
C9_ViewCartAlwaysSucceeds ==
    (resp.op = "view_cart" /\ resp.status # 302)
    => /\ resp.status = 200
       /\ Len(resp.body) = Cardinality(Owned(cartItems, resp.user))
       /\ \A i \in Owned(cartItems, resp.user) :
            \E k \in DOMAIN resp.body : resp.body[k].id = i

====
